---- MODULE Spec2Model ----
(***************************************************************************)
(* A model of poibin.py: class PoiBin, the Poisson binomial distribution   *)
(* computed from its characteristic function by a discrete Fourier         *)
(* transform.                                                              *)
(*                                                                         *)
(* Numbers.  The probabilities are rationals a/ProbDen.  A complex value   *)
(* that the code reaches by exp(omega*l*1j), products, conjugation and the *)
(* transform is a combination of powers of zeta = exp(2*pi*1j/(n+1)); it   *)
(* is kept exactly, as the function m |-> (integer coefficient of zeta^m), *)
(* m in 0..n, over a common denominator.  Real results (pmf, cdf, pval)    *)
(* are integers over the denominator "one" of the state: the real 1.0 is   *)
(* the integer one.  Arithmetic is that of the reals, not of IEEE doubles: *)
(* rounding of the last bits is not modelled.  Imaginary parts of the      *)
(* transform output are counted in units of 1e-15.                         *)
(*                                                                         *)
(* Interpreter.  The module is run as it was written to run: assert        *)
(* statements are executed (no -O), and collections.Iterable, which pval   *)
(* names, exists (Python before 3.10; later ones raise AttributeError at   *)
(* that line for every valid argument).                                    *)
(***************************************************************************)
EXTENDS Integers, Sequences, FiniteSets, TLC

\* ---------------------------------------------------------------- bounds
\* Largest number of input probabilities.
MaxN == 4
\* Probabilities are the multiples of 1/ProbDen.
ProbDen == 2
\* Queries are issued on distributions of at most this many probabilities.
MaxQueryN == 2
\* Longest sequence passed to pmf, cdf or pval.
MaxLen == 2
\* Largest imaginary residue of a transform output, in units of 1e-15.
MaxResidue == 2
\* Largest length of a transform output handed to check_xi_are_real.
MaxXiN == 2

\* eps of check_xi_are_real, in units of 1e-15.
Eps == 1

VARIABLES
  pc,        \* position in __init__, "constructed" once it returned
  p,         \* self.p: [shape, data], data the numerators over ProbDen
  n,         \* self.n
  omega,     \* self.omega = 2*pi/omega when omega > 0; 0 before it is set
  chi,       \* local chi of get_pmf_xi: index -> coefficients of zeta^m
  chi_den,   \* the denominator of chi's coefficients
  written,   \* how many times each index of chi was assigned
  xi,        \* local xi of get_pmf_xi: index -> [re, im]
  one,       \* the integer that stands for the real 1.0 in xi.re, pmf, cdf
  pmf_list,  \* self.pmf_list
  cdf_list,  \* self.cdf_list
  err,       \* the exception __init__ raised, "none" if none
  call,      \* the last query: [op, kk]
  ret        \* what the last query returned or raised

vars == <<pc, p, n, omega, chi, chi_den, written, xi, one, pmf_list, cdf_list,
          err, call, ret>>

\* ------------------------------------------------------- helper arithmetic
RECURSIVE SumTo(_, _)
\* sum of f[i] for i in 0..k
SumTo(f, k) == IF k < 0 THEN 0 ELSE f[k] + SumTo(f, k - 1)

RECURSIVE Pow(_, _)
Pow(b, e) == IF e = 0 THEN 1 ELSE b * Pow(b, e - 1)

Abs(x) == IF x < 0 THEN -x ELSE x

Max(a, b) == IF a > b THEN a ELSE b

Min(a, b) == IF a < b THEN a ELSE b

\* An array of length 0.
EmptyArr == [i \in {} |-> 0]

ArrLen(a) == Cardinality(DOMAIN a)

\* The array f as a value computed once: TLC evaluates a function
\* expression anew at each application unless it is combined into a value.
Arr(f) == f @@ EmptyArr

\* ------------------------------------------- exact complex arithmetic
\* A complex value is x = sum over m in 0..N-1 of x[m] * zeta^m, where
\* zeta = exp(2*pi*1j/N) and N = n + 1.
CZero(N) == Arr([m \in 0..(N - 1) |-> 0])

\* The real number c.
CReal(c, N) == Arr([m \in 0..(N - 1) |-> IF m = 0 THEN c ELSE 0])

\* c * exp(omega * l * 1j) with omega = 2*pi/N: np.exp has period 2*pi*1j.
CExp(c, l, N) == Arr([m \in 0..(N - 1) |-> IF m = l % N THEN c ELSE 0])

CAdd(x, y, N) == Arr([m \in 0..(N - 1) |-> x[m] + y[m]])

CSub(x, y, N) == Arr([m \in 0..(N - 1) |-> x[m] - y[m]])

CScale(c, x, N) == Arr([m \in 0..(N - 1) |-> c * x[m]])

\* x * y: zeta^a * zeta^b = zeta^((a + b) % N).
CMul(x, y, N) ==
  Arr([m \in 0..(N - 1) |->
         SumTo([a \in 0..(N - 1) |-> x[a] * y[(m + N - a) % N]], N - 1)])

\* np.conjugate: conjugate(zeta^m) = zeta^(N - m).
CConj(x, N) == Arr([m \in 0..(N - 1) |-> x[(N - m) % N]])

\* x * zeta^j for j in 0..N-1.
CShift(x, j, N) == Arr([m \in 0..(N - 1) |-> x[(m + N - j) % N]])

RECURSIVE Mu(_)
\* The Moebius function: the sum of Mu(d) over the divisors d of k is 0
\* for k > 1.
Mu(k) ==
  IF k = 1 THEN 1
  ELSE -SumTo([d \in 0..(k - 1) |->
                 IF d >= 1 /\ k % d = 0 THEN Mu(d) ELSE 0], k - 1)

\* The trace of zeta^m from Q(zeta) to Q (Ramanujan's sum): the sum of
\* zeta^(a*m) over the a in 1..N coprime to N.
Ram(N, m) ==
  SumTo([d \in 0..N |->
           IF d >= 1 /\ N % d = 0 /\ m % d = 0 THEN Mu(N \div d) * d ELSE 0], N)

Tr(x, N) == SumTo([m \in 0..(N - 1) |-> x[m] * Ram(N, m)], N - 1)

\* Whether x is the complex number 0: the trace form of Q(zeta) is
\* non-degenerate, and the powers of zeta span Q(zeta).
CIsZero(x, N) == \A j \in 0..(N - 1) : Tr(CShift(x, j, N), N) = 0

\* 1000 * sin(2*pi*m/M) for m in 0..M-1, to about 2 parts in 1000
\* (Bhaskara's rational approximation of the sine on a half turn).
SinFx(m, M) ==
  LET h(k) == (32000 * k * (M - 2 * k)) \div (5 * M * M - 8 * k * (M - 2 * k))
  IN  IF 2 * m <= M THEN h(m) ELSE -h(M - m)

\* 1000 * cos(2*pi*m/N).
CosFx(m, N) == SinFx((4 * m + N) % (4 * N), 4 * N)

\* The real part of x as an integer: exact when the real part is
\* rational (the trace of a rational r is r * Ram(N, 0)), rounded to
\* about 2 parts in 1000 otherwise.
CRe(x, N) ==
  LET sym == CAdd(x, CConj(x, N), N)
      phi == Ram(N, 0)
      t   == Tr(sym, N)
  IN  IF CIsZero(CSub(CScale(phi, sym, N), CReal(t, N), N), N)
      THEN t \div (2 * phi)
      ELSE SumTo([m \in 0..(N - 1) |-> x[m] * CosFx(m, N)], N - 1) \div 1000

\* The imaginary part of x over the denominator den, in units of 1e-15:
\* 0 exactly when x equals its conjugate; otherwise it is a number whose
\* size is far beyond the unit, and only its sign is kept (1e6 units).
CIm(x, N) ==
  IF CIsZero(CSub(x, CConj(x, N), N), N) THEN 0
  ELSE IF SumTo([m \in 0..(N - 1) |-> x[m] * SinFx(m, N)], N - 1) >= 0
       THEN 1000000 ELSE -1000000

\* ------------------------------------------------------- construction
\* The numerators a of the input values a/ProbDen: from -1/ProbDen to
\* 1 + 1/ProbDen.
ProbNums == (-1)..(ProbDen + 1)

\* np.array(p) of an input holding k numbers: a flat list of k scalars has
\* shape (k,), a list holding one list of k scalars has shape (1, k), and
\* a bare scalar has shape ().
InputShapes(k) == {<<k>>, <<1, k>>} \cup (IF k = 1 THEN {<<>>} ELSE {})

Inputs ==
  UNION {{[shape |-> s, data |-> d] : s \in InputShapes(k), d \in [1..k -> ProbNums]}
         : k \in 0..MaxN}

NoCall == [op |-> "none", kk |-> <<>>]

NoRet == [kind |-> "none"]

\* No exception.
Ok == [type |-> "none", msg |-> ""]

Exception(t, m) == [type |-> t, msg |-> m]

\* __init__ up to the call of check_input_prob.
Init ==
  /\ p \in Inputs
  /\ n = Len(p.data)
  /\ pc = "check_input_prob"
  /\ omega = 0
  /\ chi = EmptyArr
  /\ chi_den = 1
  /\ written = EmptyArr
  /\ xi = EmptyArr
  /\ one = 1
  /\ pmf_list = EmptyArr
  /\ cdf_list = EmptyArr
  /\ err = Ok
  /\ call = NoCall
  /\ ret = NoRet

\* check_input_prob with the last test written p < 1.
check_input_prob_strict(pp, nn) ==
  IF pp.shape # <<nn>>
  THEN Exception("ValueError", "Input must be an one-dimensional array or a list.")
  ELSE IF ~(\A i \in 1..nn : pp.data[i] >= 0)
  THEN Exception("ValueError", "Input probabilites have to be non negative.")
  ELSE IF ~(\A i \in 1..nn : pp.data[i] < ProbDen)
  THEN Exception("ValueError", "Input probabilites have to be smaller than 1.")
  ELSE Ok

\* The exception check_input_prob raises on self.p, Ok if it returns.
check_input_prob(pp, nn) ==
  IF pp.shape # <<nn>>
  THEN Exception("ValueError", "Input must be an one-dimensional array or a list.")
  ELSE IF ~(\A i \in 1..nn : pp.data[i] >= 0)
  THEN Exception("ValueError", "Input probabilites have to be non negative.")
  ELSE IF ~(\A i \in 1..nn : pp.data[i] <= ProbDen)
  THEN Exception("ValueError", "Input probabilites have to be smaller than 1.")
  ELSE Ok

\* Validate with the exception of check_input_prob recorded and not
\* raised: __init__ goes on.
ValidateNoStop ==
  /\ pc = "check_input_prob"
  /\ pc' = "get_chi"
  /\ omega' = n + 1
  /\ err' = check_input_prob(p, n)
  /\ UNCHANGED <<p, n, chi, chi_den, written, xi, one, pmf_list, cdf_list, call, ret>>

\* __init__: self.check_input_prob() and, if it returns, self.omega.
Validate ==
  /\ pc = "check_input_prob"
  /\ LET e == check_input_prob(p, n)
     IN  IF e = Ok
         THEN pc' = "get_chi" /\ omega' = n + 1 /\ err' = err
         ELSE pc' = "failed" /\ omega' = omega /\ err' = e
  /\ UNCHANGED <<p, n, chi, chi_den, written, xi, one, pmf_list, cdf_list, call, ret>>

\* half_n of get_pmf_xi: int(n / 2 + n % 2), n / 2 the true division.
HalfN(nn) == (nn + 2 * (nn % 2)) \div 2

\* The indices a[lo:hi] selects in an array of length len (0 <= lo, hi).
PySlice(lo, hi, len) ==
  [j \in 1..Max(0, Min(hi, len) - Min(lo, len)) |-> Min(lo, len) + j - 1]

\* s[::-1]
Reversed(s) == [j \in 1..Len(s) |-> s[Len(s) + 1 - j]]

\* a[idx] = vals for a slice idx and as many values.
SliceAssign(a, idx, vals) ==
  Arr([l \in DOMAIN a |->
         IF \E j \in 1..Len(idx) : idx[j] = l /\ j <= Len(vals)
         THEN vals[CHOOSE j \in 1..Len(idx) : idx[j] = l /\ j <= Len(vals)]
         ELSE a[l]])

\* Xy with p and 1 - p exchanged.
XySwapped(a, l, N) == CAdd(CReal(a, N), CExp(ProbDen - a, l, N), N)

\* 1 - p + p * e for one probability a/ProbDen and e = exp(omega*l*1j),
\* over the denominator ProbDen.
Xy(a, l, N) == CAdd(CReal(ProbDen - a, N), CExp(a, l, N), N)

RECURSIVE PolarProduct(_, _, _, _)
\* d * exp(argz_sum * 1j) over the first k probabilities: the number
\* whose modulus is exp(sum of log|z_i|), the product of the |z_i|, and
\* whose argument is the sum of the arctan2(z_i.imag, z_i.real), that is
\* the product of the z_i (0 when some z_i is 0: log gives -inf, exp 0).
\* Over the denominator ProbDen^k.
PolarProduct(data, k, l, N) ==
  IF k = 0 THEN CReal(1, N)
  ELSE CMul(PolarProduct(data, k - 1, l, N), Xy(data[k], l, N), N)

\* get_chi for the index l of idx_array.
get_chi(data, l, N) == PolarProduct(data, Len(data), l, N)

\* The slice the first half of chi is assigned to.
FirstHalfDst(nn) == PySlice(1, HalfN(nn) + 1, nn + 1)

\* The slice the second half of chi is assigned to.
MirrorDst(nn) == PySlice(HalfN(nn) + 1, nn + 1, nn + 1)

\* MirrorSrc without the reversal [::-1].
MirrorSrcForward(nn) == PySlice(1, nn - HalfN(nn) + 1, nn + 1)

\* The indices the second half is read from: chi[1:n - half_n + 1][::-1].
MirrorSrc(nn) == Reversed(PySlice(1, nn - HalfN(nn) + 1, nn + 1))

\* chi of get_pmf_xi before it is divided by n + 1, over ProbDen^n.
\* np.empty leaves the elements unset (0 here): each is to be assigned
\* before it is read.
BuildChiArray(data, nn) ==
  LET N    == nn + 1
      chi0 == [l \in 0..nn |-> CZero(N)]
      chi1 == [chi0 EXCEPT ![0] = CReal(Pow(ProbDen, nn), N)]
      dst  == FirstHalfDst(nn)
      chi2 == SliceAssign(chi1, dst,
                [j \in 1..HalfN(nn) |-> get_chi(data, j, N)])
      src  == MirrorSrc(nn)
  IN  SliceAssign(chi2, MirrorDst(nn),
        [j \in 1..Len(src) |-> CConj(chi2[src[j]], N)])

\* How many of the three assignments of get_pmf_xi write index l.
WriteCount(nn, l) ==
  (IF l = 0 THEN 1 ELSE 0)
  + Cardinality({j \in 1..Len(FirstHalfDst(nn)) : FirstHalfDst(nn)[j] = l})
  + Cardinality({j \in 1..Len(MirrorDst(nn)) : MirrorDst(nn)[j] = l})

\* get_pmf_xi up to the normalisation: chi is allocated and filled.
BuildChi ==
  /\ pc = "get_chi"
  /\ chi' = BuildChiArray(p.data, n)
  /\ chi_den' = Pow(ProbDen, n)
  /\ written' = [l \in 0..n |-> WriteCount(n, l)]
  /\ pc' = "fft"
  /\ UNCHANGED <<p, n, omega, xi, one, pmf_list, cdf_list, err, call, ret>>

RECURSIVE DftSum(_, _, _, _)
\* The sum over l in 0..upto of c[l] * exp(-2*pi*1j*k*l/N).
DftSum(c, k, upto, N) ==
  IF upto < 0 THEN CZero(N)
  ELSE CAdd(DftSum(c, k, upto - 1, N),
            CShift(c[upto], (N - ((k * upto) % N)) % N, N), N)

\* np.fft.fft(c) for c of length N, as complex numbers [re, im]: re over
\* the denominator of c, im in units of 1e-15.
Fft(c, N) ==
  Arr([k \in 0..(N - 1) |->
         LET x == DftSum(c, k, N - 1, N) IN [re |-> CRe(x, N), im |-> CIm(x, N)]])

\* get_pmf_xi: chi /= self.n + 1, then xi = np.fft.fft(chi).
Transform ==
  /\ pc = "fft"
  /\ chi_den' = chi_den * (n + 1)
  /\ one' = chi_den * (n + 1)
  /\ xi' = Fft(chi, n + 1)
  /\ pc' = "check_xi"
  /\ UNCHANGED <<p, n, omega, chi, written, pmf_list, cdf_list, err, call, ret>>

\* np.all(xx.imag <= eps)
check_xi_are_real(xx) == \A k \in DOMAIN xx : xx[k].im <= Eps

\* get_pmf_xi: the check of xi, then xi = xi.real, returned to __init__,
\* which stores it in self.pmf_list; or the TypeError.
CheckXi ==
  /\ pc = "check_xi"
  /\ IF check_xi_are_real(xi)
     THEN /\ xi' = [k \in DOMAIN xi |-> [re |-> xi[k].re, im |-> 0]]
          /\ pmf_list' = [k \in DOMAIN xi |-> xi[k].re]
          /\ pc' = "get_cdf"
          /\ err' = err
     ELSE /\ xi' = xi
          /\ pmf_list' = pmf_list
          /\ pc' = "failed"
          /\ err' = Exception("TypeError", "pmf / xi values have to be real.")
  /\ UNCHANGED <<p, n, omega, chi, chi_den, written, one, cdf_list, call, ret>>

RECURSIVE CdfLoop(_, _)
\* c[i] of get_cdf: c[0] = xx[0], c[i] = c[i - 1] + xx[i].
CdfLoop(xx, i) == IF i = 0 THEN xx[0] ELSE CdfLoop(xx, i - 1) + xx[i]

\* get_cdf with the loop over range(1, self.n): c[n] is left unset.
get_cdf_short(xx, nn) ==
  [i \in 0..nn |-> IF i < nn \/ nn = 0 THEN CdfLoop(xx, i) ELSE 0]

get_cdf(xx, nn) == [i \in 0..nn |-> CdfLoop(xx, i)]

\* __init__: self.cdf_list = self.get_cdf(self.pmf_list), and the return.
GetCdf ==
  /\ pc = "get_cdf"
  /\ cdf_list' = get_cdf(pmf_list, n)
  /\ pc' = "constructed"
  /\ UNCHANGED <<p, n, omega, chi, chi_den, written, xi, one, pmf_list, err, call, ret>>

\* ------------------------------------------------------------ queries
\* A Python number handed to a query: its type and twice its value (so
\* that 0.5 is v2 = 1 and the integer 1 and the float 1.0 are v2 = 2).
IntTypes == {"int", "np.int64"}

Scalars(nn) ==
  {[ty |-> t, v2 |-> 2 * k] : t \in IntTypes, k \in (-1)..(nn + 1)}
  \cup {[ty |-> "float", v2 |-> h] : h \in {1, 2}}

SeqElems(nn) == {x \in Scalars(nn) : x.ty # "np.int64"}

\* The arguments kk of a query: a bare number, or a list or a tuple of
\* numbers.
Queries(nn) ==
  {[kind |-> "scalar", elems |-> <<x>>] : x \in Scalars(nn)}
  \cup UNION {{[kind |-> c, elems |-> e] : c \in {"list", "tuple"},
                                          e \in [1..len -> SeqElems(nn)]}
              : len \in 0..MaxLen}

IntScalar(k) == [kind |-> "scalar", elems |-> <<[ty |-> "int", v2 |-> 2 * k]>>]

\* A query that ends by raising e.
Raise(e) == [kind |-> "raise", exc |-> e]

RECURSIVE CheckElems(_, _, _)
\* The loop of check_rv_input from element i on: the first assertion
\* that fails, Ok if none does.
CheckElems(elems, i, nn) ==
  IF i > Len(elems) THEN Ok
  ELSE IF ~(elems[i].ty = "int" \/ elems[i].ty = "np.int64")
  THEN Exception("AssertionError", "Values in input list must be integers")
  ELSE IF ~(elems[i].v2 >= 0)
  THEN Exception("AssertionError", "Values in input list cannot be negative.")
  ELSE IF ~(elems[i].v2 <= 2 * nn)
  THEN Exception("AssertionError",
         "Values in input list must be smaller or equal to the number of input probabilities n")
  ELSE CheckElems(elems, i + 1, nn)

\* check_rv_input without the test kk >= 0 of a bare number.
check_rv_input_no_neg(kk, nn) ==
  IF kk.kind # "scalar" THEN CheckElems(kk.elems, 1, nn)
  ELSE LET k == kk.elems[1]
       IN  IF ~(k.ty = "int" \/ k.ty = "np.int64")
           THEN Exception("AssertionError", "Input value must be an integer.")
           ELSE IF ~(k.v2 <= 2 * nn)
           THEN Exception("AssertionError", "Input value cannot be greater than n")
           ELSE Ok

\* The exception check_rv_input raises, Ok if it returns True. A
\* bare number is not iterable: the for raises TypeError and the except
\* branch checks kk itself.
check_rv_input(kk, nn) ==
  IF kk.kind # "scalar" THEN CheckElems(kk.elems, 1, nn)
  ELSE LET k == kk.elems[1]
       IN  IF ~(k.ty = "int" \/ k.ty = "np.int64")
           THEN Exception("AssertionError", "Input value must be an integer.")
           ELSE IF ~(k.v2 >= 0)
           THEN Exception("AssertionError", "Input value cannot be negative.")
           ELSE IF ~(k.v2 <= 2 * nn)
           THEN Exception("AssertionError", "Input value cannot be greater than n")
           ELSE Ok

\* Whether NumPy takes the number x as an index at position k of an
\* array of length len: an integer in -len..len-1 (a negative index
\* counts from the end).
IndexOk(x, len) ==
  x.ty \in IntTypes /\ -len <= x.v2 \div 2 /\ x.v2 \div 2 < len

\* a[k] for an index IndexOk accepts.
ArrAt(a, x) ==
  IF x.v2 \div 2 >= 0 THEN a[x.v2 \div 2] ELSE a[ArrLen(a) + x.v2 \div 2]

\* Index with the elements a list selects returned in reverse order.
IndexReversed(a, kk) ==
  LET len == ArrLen(a)
      es  == kk.elems
  IN  IF kk.kind = "scalar" \/ (kk.kind = "tuple" /\ Len(es) = 1)
      THEN IF IndexOk(es[1], len)
           THEN [kind |-> "scalar", ty |-> "float", val |-> ArrAt(a, es[1])]
           ELSE Raise(Exception("IndexError", "index"))
      ELSE IF kk.kind = "tuple"
      THEN IF Len(es) = 0
           THEN [kind |-> "array", val |-> [i \in 1..len |-> a[i - 1]]]
           ELSE Raise(Exception("IndexError", "index"))
      ELSE IF \A i \in 1..Len(es) : IndexOk(es[i], len)
           THEN [kind |-> "array",
                 val |-> [i \in 1..Len(es) |-> ArrAt(a, es[Len(es) + 1 - i])]]
           ELSE Raise(Exception("IndexError", "index"))

\* a[kk] for a one-dimensional NumPy array a. A bare integer selects an
\* element. A list is an index array: the result is the array of the
\* selected elements, in order. A tuple is one index per dimension: the
\* empty tuple selects the whole array, a tuple of one integer selects
\* an element, a longer tuple has too many indices.
Index(a, kk) ==
  LET len == ArrLen(a)
      es  == kk.elems
  IN  IF kk.kind = "scalar" \/ (kk.kind = "tuple" /\ Len(es) = 1)
      THEN IF IndexOk(es[1], len)
           THEN [kind |-> "scalar", ty |-> "float", val |-> ArrAt(a, es[1])]
           ELSE Raise(Exception("IndexError", "index"))
      ELSE IF kk.kind = "tuple"
      THEN IF Len(es) = 0
           THEN [kind |-> "array", val |-> [i \in 1..len |-> a[i - 1]]]
           ELSE Raise(Exception("IndexError", "index"))
      ELSE IF \A i \in 1..Len(es) : IndexOk(es[i], len)
           THEN [kind |-> "array", val |-> [i \in 1..Len(es) |-> ArrAt(a, es[i])]]
           ELSE Raise(Exception("IndexError", "index"))

\* PoiBin.pmf
pmf(kk) ==
  LET e == check_rv_input(kk, n)
  IN  IF e # Ok THEN Raise(e) ELSE Index(pmf_list, kk)

\* PoiBin.cdf
cdf(kk) ==
  LET e == check_rv_input(kk, n)
  IN  IF e # Ok THEN Raise(e) ELSE Index(cdf_list, kk)

\* kk - 1 for a bare integer kk.
Pred(kk) ==
  [kind |-> "scalar",
   elems |-> <<[ty |-> kk.elems[1].ty, v2 |-> kk.elems[1].v2 - 2]>>]

\* The loop of pval over a list or a tuple: fk[i] = 1. - self.cdf(k) +
\* self.pmf(k) for the bare elements k, in order; an exception of cdf or
\* pmf that is no TypeError leaves the method.
PvalLoop(kk) ==
  LET one_k(x) == [kind |-> "scalar", elems |-> <<x>>]
      bad == {i \in 1..Len(kk.elems) :
                cdf(one_k(kk.elems[i])).kind = "raise"
                \/ pmf(one_k(kk.elems[i])).kind = "raise"}
  IN  IF bad # {}
      THEN LET i == CHOOSE j \in bad : \A m \in bad : j <= m
           IN  IF cdf(one_k(kk.elems[i])).kind = "raise"
               THEN cdf(one_k(kk.elems[i]))
               ELSE pmf(one_k(kk.elems[i]))
      ELSE [kind |-> "array",
            val |-> [i \in 1..Len(kk.elems) |->
                       one - cdf(one_k(kk.elems[i])).val
                           + pmf(one_k(kk.elems[i])).val]]

\* pval with the except branch returning 1 - self.cdf(kk).
pval_no_pred(kk) ==
  LET e == check_rv_input(kk, n)
  IN  IF e # Ok THEN Raise(e)
      ELSE IF kk.kind # "scalar" THEN PvalLoop(kk)
      ELSE IF kk.elems[1].v2 = 0
      THEN [kind |-> "scalar", ty |-> "int", val |-> one]
      ELSE LET c == cdf(kk)
           IN  IF c.kind = "raise" THEN c
               ELSE [kind |-> "scalar", ty |-> "float", val |-> one - c.val]

\* PoiBin.pval. The isinstance test is evaluated and its result dropped
\* (collections.Iterable exists, see the head of the module). For a bare number
\* the for raises TypeError, and the except branch returns the integer 1
\* for 0 and 1 - self.cdf(kk - 1) otherwise.
pval(kk) ==
  LET e == check_rv_input(kk, n)
  IN  IF e # Ok THEN Raise(e)
      ELSE IF kk.kind # "scalar" THEN PvalLoop(kk)
      ELSE IF kk.elems[1].v2 = 0
      THEN [kind |-> "scalar", ty |-> "int", val |-> one]
      ELSE LET c == cdf(Pred(kk))
           IN  IF c.kind = "raise" THEN c
               ELSE [kind |-> "scalar", ty |-> "float", val |-> one - c.val]

\* A call of pmf on the constructed object.
QueryPmf ==
  /\ pc = "constructed"
  /\ n <= MaxQueryN
  /\ call = NoCall
  /\ \E kk \in Queries(n) :
       /\ call' = [op |-> "pmf", kk |-> kk]
       /\ ret' = pmf(kk)
  /\ UNCHANGED <<pc, p, n, omega, chi, chi_den, written, xi, one, pmf_list,
                 cdf_list, err>>

\* A call of cdf on the constructed object.
QueryCdf ==
  /\ pc = "constructed"
  /\ n <= MaxQueryN
  /\ call = NoCall
  /\ \E kk \in Queries(n) :
       /\ call' = [op |-> "cdf", kk |-> kk]
       /\ ret' = cdf(kk)
  /\ UNCHANGED <<pc, p, n, omega, chi, chi_den, written, xi, one, pmf_list,
                 cdf_list, err>>

\* QueryPval with fk bound to self.cdf_list instead of a new array: the
\* loop then writes the p-values into self.cdf_list.
QueryPvalAliased ==
  /\ pc = "constructed"
  /\ n <= MaxQueryN
  /\ call = NoCall
  /\ \E kk \in Queries(n) :
       /\ call' = [op |-> "pval", kk |-> kk]
       /\ ret' = pval(kk)
       /\ cdf_list' =
            IF kk.kind # "scalar" /\ ret'.kind = "array"
            THEN [i \in 0..n |-> IF i + 1 <= Len(ret'.val) THEN ret'.val[i + 1]
                                 ELSE cdf_list[i]]
            ELSE cdf_list
  /\ UNCHANGED <<pc, p, n, omega, chi, chi_den, written, xi, one, pmf_list, err>>

\* A call of pval on the constructed object.
QueryPval ==
  /\ pc = "constructed"
  /\ n <= MaxQueryN
  /\ call = NoCall
  /\ \E kk \in Queries(n) :
       /\ call' = [op |-> "pval", kk |-> kk]
       /\ ret' = pval(kk)
  /\ UNCHANGED <<pc, p, n, omega, chi, chi_den, written, xi, one, pmf_list,
                 cdf_list, err>>

\* The caller takes the result (or the exception) of the query: the code
\* is single-threaded, and the next query starts after this one ended.
Return ==
  /\ call # NoCall
  /\ call' = NoCall
  /\ ret' = NoRet
  /\ UNCHANGED <<pc, p, n, omega, chi, chi_den, written, xi, one, pmf_list,
                 cdf_list, err>>

Next == Validate \/ BuildChi \/ Transform \/ CheckXi \/ GetCdf
        \/ QueryPmf \/ QueryCdf \/ QueryPval \/ Return

Spec == Init /\ [][Next]_vars

\* --------------------------------- check_xi_are_real on rounded outputs
\* The transform is computed in floating point, where the imaginary parts
\* of its output are rounding residues of either sign. XiInit is get_pmf_xi
\* after xi = np.fft.fft(chi) for nn >= 1 probabilities 0, with the real parts
\* at their exact values and every imaginary part any residue of at most
\* MaxResidue units.
Residues == (-MaxResidue)..MaxResidue

XiInit ==
  \E nn \in 1..MaxXiN :
    /\ n = nn
    /\ p = [shape |-> <<nn>>, data |-> [i \in 1..nn |-> 0]]
    /\ pc = "check_xi"
    /\ omega = nn + 1
    /\ chi = BuildChiArray(p.data, nn)
    /\ chi_den = Pow(ProbDen, nn) * (nn + 1)
    /\ written = [l \in 0..nn |-> WriteCount(nn, l)]
    /\ one = Pow(ProbDen, nn) * (nn + 1)
    /\ xi \in [0..nn -> {[re |-> r, im |-> i] : r \in {0, one}, i \in Residues}]
    /\ \A k \in 0..nn : xi[k].re = Fft(chi, nn + 1)[k].re
    /\ pmf_list = EmptyArr
    /\ cdf_list = EmptyArr
    /\ err = Ok
    /\ call = NoCall
    /\ ret = NoRet

XiNext == CheckXi \/ GetCdf

SpecXi == XiInit /\ [][XiNext]_vars

\* ---------------------------------------------------------- properties
\* A number that is no integer k with 0 <= k <= nn.
Offending(x, nn) == x.ty \notin IntTypes \/ x.v2 < 0 \/ x.v2 > 2 * nn

ValidElems(kk, nn) == \A i \in 1..Len(kk.elems) : ~Offending(kk.elems[i], nn)

\* Pr(X >= k) from the pmf vector: the sum of pmf_list[k..n].
TailSum(k) == SumTo(pmf_list, n) - SumTo(pmf_list, k - 1)

\* C1: a pmf, cdf or pval query whose argument is, or contains, a value
\* that is not an integer or not in 0..n raises the invalid-input error
\* (AssertionError) and returns no value.
C1_InvalidQueryRaises ==
  (call.op \in {"pmf", "cdf", "pval"}
   /\ \E i \in 1..Len(call.kk.elems) : Offending(call.kk.elems[i], n))
  => (ret.kind = "raise" /\ ret.exc.type = "AssertionError")

\* C1 witness: pval on a list of a valid integer followed by a float
\* raised.
C1_Witness ==
  /\ call.op = "pval" /\ call.kk.kind = "list" /\ Len(call.kk.elems) = 2
  /\ ~Offending(call.kk.elems[1], n)
  /\ call.kk.elems[2].ty = "float"
  /\ ret.kind = "raise"

VectorMsgs ==
  [shape |-> "Input must be an one-dimensional array or a list.",
   negative |-> "Input probabilites have to be non negative.",
   above |-> "Input probabilites have to be smaller than 1."]

\* C2: once the input was validated, construction has failed with the
\* invalid-input error (ValueError) exactly when the input is not
\* one-dimensional or holds a value below 0 or above 1, the message names
\* a condition that does fail, and every flat input within [0, 1], the
\* endpoints included, was accepted.
C2_ValidationExact ==
  pc # "check_input_prob" =>
    LET flat  == Len(p.shape) = 1
        neg   == \E i \in 1..Len(p.data) : p.data[i] < 0
        above == \E i \in 1..Len(p.data) : p.data[i] > ProbDen
    IN  /\ (err.type = "ValueError") <=> (~flat \/ neg \/ above)
        /\ err.type = "ValueError" =>
             /\ pc = "failed"
             /\ err.msg \in {VectorMsgs.shape, VectorMsgs.negative, VectorMsgs.above}
             /\ err.msg = VectorMsgs.shape => ~flat
             /\ err.msg = VectorMsgs.negative => neg
             /\ err.msg = VectorMsgs.above => above
        /\ (flat /\ ~neg /\ ~above) => pc # "failed"

\* C2 witness: a flat input holding both endpoints 0 and 1 was accepted.
C2_Witness ==
  /\ pc = "get_chi"
  /\ \E i \in 1..n : p.data[i] = 0
  /\ \E i \in 1..n : p.data[i] = ProbDen

\* The value of the scalar form of pval at k.
ScalarTail(k) == IF k = 0 THEN one ELSE one - cdf_list[k - 1]

\* C3: for valid k, pval on a bare k returned 1 for k = 0 and
\* 1 - cdf(k - 1) for k > 0; on a list or tuple it returned a sequence of
\* the same length whose i-th entry is 1 - cdf(k_i) + pmf(k_i); both are
\* the right tail Pr(X >= k), so the two forms agree, the entry of
\* k_i = 0 being 1.
C3_PvalRightTail ==
  (call.op = "pval" /\ ValidElems(call.kk, n)) =>
    IF call.kk.kind = "scalar"
    THEN LET k == call.kk.elems[1].v2 \div 2
         IN  /\ ret.kind = "scalar"
             /\ k = 0 => ret.val = one
             /\ k > 0 => ret.val = one - cdf_list[k - 1]
             /\ ret.val = TailSum(k)
    ELSE /\ ret.kind = "array"
         /\ Len(ret.val) = Len(call.kk.elems)
         /\ \A i \in 1..Len(call.kk.elems) :
              LET k == call.kk.elems[i].v2 \div 2
              IN  /\ ret.val[i] = one - cdf_list[k] + pmf_list[k]
                  /\ ret.val[i] = ScalarTail(k)
                  /\ ret.val[i] = TailSum(k)
                  /\ k = 0 => ret.val[i] = one

\* C3 witness: pval on the list [0, 1] returned 1 and a tail strictly
\* between 0 and 1.
C3_Witness ==
  /\ call.op = "pval" /\ call.kk.kind = "list" /\ Len(call.kk.elems) = 2
  /\ call.kk.elems[1] = [ty |-> "int", v2 |-> 0]
  /\ call.kk.elems[2] = [ty |-> "int", v2 |-> 2]
  /\ ret.kind = "array"
  /\ ret.val[1] = one /\ 0 < ret.val[2] /\ ret.val[2] < one

\* The vector a pmf or cdf query reads.
VectorOf(op) == IF op = "pmf" THEN pmf_list ELSE cdf_list

\* What pmf and cdf are to return on valid arguments of the kinds given:
\* the single value for a bare integer, and for a sequence the sequence
\* of the single values, same length, same order.
Elementwise(kinds) ==
  (call.op \in {"pmf", "cdf"} /\ call.kk.kind \in kinds /\ ValidElems(call.kk, n)) =>
    IF call.kk.kind = "scalar"
    THEN ret.kind = "scalar" /\ ret.val = VectorOf(call.op)[call.kk.elems[1].v2 \div 2]
    ELSE /\ ret.kind = "array"
         /\ Len(ret.val) = Len(call.kk.elems)
         /\ \A i \in 1..Len(call.kk.elems) :
              ret.val[i] = VectorOf(call.op)[call.kk.elems[i].v2 \div 2]

\* C4 as stated: pmf and cdf return the single value for a bare integer
\* and the elementwise sequence for a sequence of any kind, a tuple
\* included.
C4_AnySequenceKind == Elementwise({"scalar", "list", "tuple"})

\* C4 amended: pmf and cdf return the single value for a bare integer
\* and the elementwise sequence, same length and order, for a list of
\* integers in 0..n (empty lists and repeated values included).
C4_ListElementwise == Elementwise({"scalar", "list"})

\* C4 witness: pmf on a list of two valid integers in descending order
\* returned two different values.
C4_Witness ==
  /\ call.op = "pmf" /\ call.kk.kind = "list" /\ Len(call.kk.elems) = 2
  /\ ValidElems(call.kk, n)
  /\ call.kk.elems[1].v2 > call.kk.elems[2].v2
  /\ ret.kind = "array"
  /\ ret.val[1] # ret.val[2]

\* C5: on a constructed object the cdf vector is the running sum of the
\* pmf vector, it is non-decreasing, and its last entry is 1.
C5_CdfPrefixSum ==
  pc = "constructed" =>
    /\ DOMAIN cdf_list = 0..n
    /\ DOMAIN pmf_list = 0..n
    /\ cdf_list[0] = pmf_list[0]
    /\ \A i \in 1..n : cdf_list[i] = cdf_list[i - 1] + pmf_list[i]
    /\ \A i \in 1..n : cdf_list[i] >= cdf_list[i - 1]
    /\ cdf_list[n] = one

\* C5 witness: a constructed cdf vector that rises twice in a row.
C5_Witness ==
  /\ pc = "constructed" /\ n >= 2
  /\ cdf_list[0] < cdf_list[1] /\ cdf_list[1] < cdf_list[2]

AllZeros == n >= 1 /\ \A i \in 1..n : p.data[i] = 0

AllOnes == n >= 1 /\ \A i \in 1..n : p.data[i] = ProbDen

\* C6: with n >= 1 probabilities all 0 the distribution is the point
\* mass at 0 (pmf(0) = 1, pmf(k) = 0 for k > 0, cdf(k) = 1, pval(0) = 1,
\* pval(k) = 0 for k > 0); with all 1 it is the point mass at n
\* (pmf(n) = 1, pmf(k) = cdf(k) = 0 for k < n, cdf(n) = 1).
C6_PointMass ==
  pc = "constructed" =>
    /\ AllZeros =>
         /\ pmf(IntScalar(0)).val = one
         /\ \A k \in 1..n : pmf(IntScalar(k)).val = 0
         /\ \A k \in 0..n : cdf(IntScalar(k)).val = one
         /\ pval(IntScalar(0)).val = one
         /\ \A k \in 1..n : pval(IntScalar(k)).val = 0
    /\ AllOnes =>
         /\ pmf(IntScalar(n)).val = one
         /\ \A k \in 0..(n - 1) : pmf(IntScalar(k)).val = 0
         /\ \A k \in 0..(n - 1) : cdf(IntScalar(k)).val = 0
         /\ cdf(IntScalar(n)).val = one

\* C6 witness: on two probabilities 0, pval(2) returned 0.
C6_Witness ==
  /\ AllZeros /\ n = 2
  /\ call = [op |-> "pval", kk |-> IntScalar(2)]
  /\ ret.kind = "scalar" /\ ret.val = 0

\* C7: once the object is constructed no step (a query that returns, a
\* query that raises, the return to the caller) changes the probability
\* vector, n, omega, the pmf vector or the cdf vector, and construction
\* never runs again.
C7_ReadOnly ==
  [][pc = "constructed" => UNCHANGED <<pc, p, n, omega, pmf_list, cdf_list>>]_vars

\* C7 witness: a pval query on a list has returned on a constructed
\* object.
C7_Witness ==
  /\ pc = "constructed"
  /\ call.op = "pval" /\ call.kk.kind = "list" /\ Len(call.kk.elems) = 2
  /\ ret.kind = "array"

Stages ==
  {<<"check_input_prob", "get_chi">>, <<"get_chi", "fft">>,
   <<"fft", "check_xi">>, <<"check_xi", "get_cdf">>,
   <<"get_cdf", "constructed">>,
   <<"check_input_prob", "failed">>, <<"check_xi", "failed">>}

\* C8: construction moves through validation, building chi, the
\* transform with its check, and the cdf sum, in this order; a stage is
\* entered only if the ones before succeeded; a constructed object holds
\* pmf and cdf vectors of length n + 1; a failed construction has an
\* error, no cdf vector, and is never queried.
C8_StagesInOrder ==
  /\ [][pc' # pc => <<pc, pc'>> \in Stages]_vars
  /\ [](pc \in {"get_chi", "fft", "check_xi", "get_cdf", "constructed"} =>
          /\ err = Ok
          /\ Len(p.shape) = 1
          /\ \A i \in 1..n : 0 <= p.data[i] /\ p.data[i] <= ProbDen)
  /\ [](pc \in {"check_input_prob", "get_chi"} => chi = EmptyArr /\ xi = EmptyArr)
  /\ [](pc \in {"check_input_prob", "get_chi", "fft", "check_xi"} =>
          pmf_list = EmptyArr)
  /\ [](pc \in {"fft", "check_xi", "get_cdf", "constructed"} => DOMAIN chi = 0..n)
  /\ [](pc \in {"get_cdf", "constructed"} =>
          /\ DOMAIN pmf_list = 0..n
          /\ \A k \in 0..n : xi[k].im <= Eps)
  /\ [](pc # "constructed" => cdf_list = EmptyArr /\ call = NoCall /\ ret = NoRet)
  /\ [](pc = "constructed" => DOMAIN pmf_list = 0..n /\ DOMAIN cdf_list = 0..n)
  /\ [](pc = "failed" <=> err # Ok)

\* C8 witness: construction failed at validation on a flat input, and
\* nothing was computed.
C8_Witness ==
  /\ pc = "failed" /\ Len(p.shape) = 1 /\ n >= 2
  /\ chi = EmptyArr /\ pmf_list = EmptyArr /\ cdf_list = EmptyArr

\* C9 as stated: the transform output passes the check only if every
\* imaginary part is at most eps in absolute value.
C9_MagnitudeChecked ==
  [][(pc = "check_xi" /\ pc' = "get_cdf") =>
       \A k \in DOMAIN xi : Abs(xi[k].im) <= Eps]_vars

\* C10: for n >= 1 and half = ceil(n/2), before the normalisation every
\* index 0..n of chi was assigned exactly once, chi[0] = 1, chi[1..half]
\* is the directly computed value, the mirrored slice has n - half
\* entries, each chi[l] with l in half+1..n is the conjugate of
\* chi[n+1-l], read from an index in 1..half, and so chi[n+1-l] is the
\* conjugate of chi[l] for every l in 1..n.
C10_ConjugateMirror ==
  (pc = "fft" /\ n >= 1) =>
    LET half == (n + 1) \div 2
        N    == n + 1
    IN  /\ DOMAIN chi = 0..n
        /\ \A l \in 0..n : written[l] = 1
        /\ chi[0] = CReal(chi_den, N)
        /\ \A l \in 1..half : chi[l] = get_chi(p.data, l, N)
        /\ Len(MirrorDst(n)) = n - half
        /\ Len(MirrorSrc(n)) = n - half
        /\ \A j \in 1..(n - half) :
             /\ MirrorDst(n)[j] = half + j
             /\ MirrorSrc(n)[j] = n + 1 - MirrorDst(n)[j]
             /\ MirrorSrc(n)[j] \in 1..half
        /\ \A l \in (half + 1)..n : chi[l] = CConj(chi[n + 1 - l], N)
        /\ \A l \in 1..n : chi[n + 1 - l] = CConj(chi[l], N)

\* C10 witness: chi of four probabilities is filled, and its two
\* mirrored entries differ.
C10_Witness ==
  /\ pc = "fft" /\ n = 4
  /\ chi[3] # chi[4]
  /\ chi[3] = CConj(chi[2], 5) /\ chi[4] = CConj(chi[1], 5)

====
